---- MODULE Spec2Model ----
(***************************************************************************)
(* Model of backend/main.py: the in-memory score board (scores_db), the    *)
(* stage directory backend/stages with one JSON file per stage, and the    *)
(* five request handlers.  Every handler is an `async def` without an       *)
(* await, so each request runs to completion on the event loop and is one  *)
(* action here.                                                            *)
(*                                                                         *)
(* Strings that are used as paths (stage ids, exclude_id, file stems) are   *)
(* modelled as the sequence of their "/"-separated segments:                *)
(*   "a" = <<"a">>, "./a" = <<".", "a">>, "sub/a" = <<"sub", "a">>,          *)
(*   ""  = <<"">>.   None (an absent optional) is <<>>.                     *)
(***************************************************************************)
EXTENDS Integers, Sequences, FiniteSets, TLC

VARIABLES scores_db, history, dirExists, files, resp, pending, done

vars == <<scores_db, history, dirExists, files, resp, pending, done>>

\* the requests the server has accepted and not yet handed to their handler
\* (pending), and the log of the requests it has completed (done)
conc == <<pending, done>>

---------------------------------------------------------------------------
(* Bounds of the model *)

\* largest count a GET /stage/random request asks for
MaxCount == 2
\* free-choice submissions before the filling run
HeadFree == 3
\* submissions of the filling run (fixed input), needed to reach the cap
FillLen == 97
\* free-choice submissions after the filling run
TailFree == 3
\* submissions of a run that mixes score and stage requests
MixedSubmits == 2
\* requests of a run with simultaneous requests
MaxRequests == 3

MaxSubmits == HeadFree + FillLen + TailFree

(* Program constants *)

\* "Keep top 100"
BoardCap == 100
\* scores_db[:10]
TopN == 10
\* random.randint(1000, 9999)
RandLo == 1000
RandHi == 9999
\* width of the hardcoded fallback stage
FallbackWidth == 800

---------------------------------------------------------------------------
(* Input domains *)

None == <<>>
EmptyStr == <<"">>

ScoreValues == {5, 10, 20}
\* name: str = "Player"
Names == {"Player"}
FillScore == [score |-> 10, name |-> "Player"]

\* ids a client puts in the body of POST /stage
StageIdInputs == { EmptyStr, <<"a">>, <<".", "a">>, <<"sub", "a">>, <<"flat">> }
Widths == {400, 800}
ElementsInputs == { <<>> }
\* values a client passes as exclude_id
ExcludeInputs == { None, EmptyStr, <<"a">>, <<".", "a">>, <<"flat">> }
Counts == (0 - 1) .. MaxCount
\* the values of random.randint(1000, 9999) the model draws
RandSample == { RandLo, RandHi }

\* the connections on which requests arrive at the same time
Connections == {1, 2}
Idle == [op |-> "idle"]

---------------------------------------------------------------------------
(* Python truthiness of an Optional[str] *)
Truthy(s) == s # None /\ s # EmptyStr

Min(a, b) == IF a <= b THEN a ELSE b

---------------------------------------------------------------------------
(* Score board *)

\* list.sort(key=lambda x: x.score, reverse=True): a stable sort, equal keys
\* keep their relative order.  A merge sort on runs: MergeDesc merges two
\* sorted lists a and b, the entries of a standing before the entries of b
\* of equal score.
\* variant: entries of b stand before the entries of a of equal score
RECURSIVE MergeDesc_RightFirst(_, _)
MergeDesc_RightFirst(a, b) ==
    IF a = <<>> THEN b
    ELSE IF b = <<>> THEN a
    ELSE LET k == Cardinality({ i \in 1..Len(a) : a[i].score > b[1].score })
         IN IF k > 0
            THEN SubSeq(a, 1, k) \o MergeDesc_RightFirst(SubSeq(a, k + 1, Len(a)), b)
            ELSE LET m == Cardinality({ j \in 1..Len(b) : b[j].score >= a[1].score })
                 IN SubSeq(b, 1, m) \o MergeDesc_RightFirst(a, SubSeq(b, m + 1, Len(b)))

RECURSIVE MergeDesc(_, _)
MergeDesc(a, b) ==
    IF a = <<>> THEN b
    ELSE IF b = <<>> THEN a
    ELSE LET k == Cardinality({ i \in 1..Len(a) : a[i].score >= b[1].score })
         IN IF k > 0
            THEN SubSeq(a, 1, k) \o MergeDesc(SubSeq(a, k + 1, Len(a)), b)
            ELSE LET m == Cardinality({ j \in 1..Len(b) : b[j].score > a[1].score })
                 IN SubSeq(b, 1, m) \o MergeDesc(a, SubSeq(b, m + 1, Len(b)))

\* s[lo..hi] sorted
RECURSIVE SortRange(_, _, _)
SortRange(s, lo, hi) ==
    IF lo = hi THEN << s[lo] >>
    ELSE LET mid == (lo + hi) \div 2
         IN MergeDesc(SortRange(s, lo, mid), SortRange(s, mid + 1, hi))

SortDesc(s) == IF s = <<>> THEN <<>> ELSE SortRange(s, 1, Len(s))

\* variant: the board is never truncated
KeepTop_NoPop(s) == s

\* variant: the first entry is removed instead of the last
KeepTop_PopFirst(s) == IF Len(s) > BoardCap THEN Tail(s) ELSE s

\* if len(scores_db) > 100: scores_db.pop()
KeepTop(s) == IF Len(s) > BoardCap THEN SubSeq(s, 1, Len(s) - 1) ELSE s

\* variant: one entry too many
TopSlice_OneMore(s) == SubSeq(s, 1, Min(TopN + 1, Len(s)))

\* scores_db[:10]
TopSlice(s) == SubSeq(s, 1, Min(TopN, Len(s)))

\* the inputs of the n-th submission: free at the head and the tail of a
\* run, fixed during the filling run in between
SubmitInputs(n) ==
    IF n > HeadFree /\ n <= HeadFree + FillLen
    THEN {FillScore}
    ELSE [score : ScoreValues, name : Names]

\* POST /scores.  seq is the submission's ordinal (object identity).
submit_score(score) ==
    /\ Len(history) < MaxSubmits
    /\ LET entry == [score |-> score.score, name |-> score.name, seq |-> Len(history) + 1]
       IN /\ scores_db' = KeepTop(SortDesc(Append(scores_db, entry)))
          /\ history' = Append(history, entry)
    /\ resp' = [op |-> "submit_score", status |-> 200, message |-> "Score submitted"]
    /\ UNCHANGED <<dirExists, files>>

SubmitScore ==
    /\ \E score \in SubmitInputs(Len(history) + 1) : submit_score(score)
    /\ UNCHANGED conc

\* GET /scores
get_scores ==
    /\ resp' = [op |-> "get_scores", status |-> 200, body |-> TopSlice(scores_db)]
    /\ UNCHANGED <<scores_db, history, dirExists, files>>

GetScores == get_scores /\ UNCHANGED conc

---------------------------------------------------------------------------
(* Stage store *)

\* files maps the stem of every file <stem>.json of STAGES_DIR to the JSON
\* object stored in it; no operation creates a subdirectory of STAGES_DIR.
NoFiles == [f \in {} |-> 0]

\* STAGES_DIR.glob("*.json"): the stems of the files of the directory
StageFiles == DOMAIN files

\* f"custom_{random.randint(1000, 9999)}"
CustomId(n) == << "custom_" \o ToString(n) >>

\* STAGES_DIR / f"{stage_id}.json": pathlib drops the "." and empty segments
\* of the joined path; the last segment carries the ".json" suffix and is
\* the file's name.  dir is the directory part below STAGES_DIR.
FilePath(stage_id) ==
    [ dir  |-> SelectSeq(SubSeq(stage_id, 1, Len(stage_id) - 1),
                         LAMBDA p : p # "." /\ p # ""),
      stem |-> stage_id[Len(stage_id)] ]

\* open(file_path, 'w') succeeds iff the file's directory exists
CanOpenForWrite(file_path) == file_path.dir = <<>>

\* variant: the exclusion filter is not applied
AvailableFiles_NoFilter(stage_files, cur) == stage_files

\* variant: no fallback to all files when the filter removed every file
AvailableFiles_NoFallback(stage_files, cur) ==
    IF Truthy(cur) THEN { f \in stage_files : <<f>> # cur } ELSE stage_files

\* variant: the filter compares the id stored in the file, not the stem
AvailableFiles_ByStoredId(stage_files, cur) ==
    LET filtered == IF Truthy(cur)
                    THEN { f \in stage_files : files[f].id # cur }
                    ELSE stage_files
    IN IF filtered = {} THEN stage_files ELSE filtered

\* lines 75-81: the files selectable when current_exclude_id is cur
AvailableFiles(stage_files, cur) ==
    LET filtered == IF Truthy(cur)
                    THEN { f \in stage_files : <<f>> # cur }
                    ELSE stage_files
    IN IF filtered = {} THEN stage_files ELSE filtered

\* variant: the loop runs count - 1 times
RECURSIVE Generate_OffByOne(_, _, _)
Generate_OffByOne(stage_files, cur, k) ==
    IF k <= 1 THEN { [ok |-> TRUE, picks |-> <<>>] }
    ELSE IF AvailableFiles(stage_files, cur) = {}
    THEN { [ok |-> FALSE, picks |-> <<>>] }
    ELSE UNION { { [ok |-> rest.ok, picks |-> <<f>> \o rest.picks]
                   : rest \in Generate_OffByOne(stage_files, files[f].id, k - 1) }
                 : f \in AvailableFiles(stage_files, cur) }

\* the loop of lines 73-87: every outcome the loop can have in k iterations
\* starting with current_exclude_id = cur.  picks are the selected files in
\* order; ok is FALSE when random.choice was given an empty list (IndexError).
RECURSIVE Generate(_, _, _)
Generate(stage_files, cur, k) ==
    IF k <= 0 THEN { [ok |-> TRUE, picks |-> <<>>] }
    ELSE IF AvailableFiles(stage_files, cur) = {}
    THEN { [ok |-> FALSE, picks |-> <<>>] }
    ELSE UNION { { [ok |-> rest.ok, picks |-> <<f>> \o rest.picks]
                   : rest \in Generate(stage_files, files[f].id, k - 1) }
                 : f \in AvailableFiles(stage_files, cur) }

\* variant: the existence of the directory is not checked (the glob of a
\* missing directory is empty)
get_random_stage_NoDirCheck(exclude_id, count) ==
    /\ IF StageFiles = {}
       THEN resp' = [op |-> "get_random_stage", status |-> 404,
                     exclude_id |-> exclude_id, count |-> count]
       ELSE \E run \in Generate(StageFiles, exclude_id, count) :
                IF run.ok
                THEN resp' = [op |-> "get_random_stage", status |-> 200,
                              exclude_id |-> exclude_id, count |-> count,
                              picked |-> run.picks,
                              body |-> [i \in 1..Len(run.picks) |-> files[run.picks[i]]]]
                ELSE resp' = [op |-> "get_random_stage", status |-> 500,
                              exclude_id |-> exclude_id, count |-> count]
    /\ UNCHANGED <<scores_db, history, dirExists, files>>

\* GET /stage/random
get_random_stage(exclude_id, count) ==
    /\ IF ~dirExists
       THEN resp' = [op |-> "get_random_stage", status |-> 500,
                     exclude_id |-> exclude_id, count |-> count]
       ELSE IF StageFiles = {}
       THEN resp' = [op |-> "get_random_stage", status |-> 404,
                     exclude_id |-> exclude_id, count |-> count]
       ELSE \E run \in Generate(StageFiles, exclude_id, count) :
                IF run.ok
                THEN resp' = [op |-> "get_random_stage", status |-> 200,
                              exclude_id |-> exclude_id, count |-> count,
                              picked |-> run.picks,
                              body |-> [i \in 1..Len(run.picks) |-> files[run.picks[i]]]]
                ELSE resp' = [op |-> "get_random_stage", status |-> 500,
                              exclude_id |-> exclude_id, count |-> count]
    /\ UNCHANGED <<scores_db, history, dirExists, files>>

GetRandomStage ==
    /\ \E exclude_id \in ExcludeInputs, count \in Counts :
           get_random_stage(exclude_id, count)
    /\ UNCHANGED conc

\* the hardcoded fallback of GET /stage/start
FallbackStage ==
    [ id |-> <<"flat_fallback">>, width |-> FallbackWidth,
      elements |-> << [type |-> "platform", x |-> 0, y |-> 500,
                       width |-> 800, height |-> 50] >> ]

\* variant: a missing flat.json is created from the fallback
get_start_point_CreatesFlat ==
    /\ resp' = [op |-> "get_start_point", status |-> 200,
                body |-> IF "flat" \notin StageFiles THEN FallbackStage
                         ELSE files["flat"]]
    /\ files' = IF dirExists /\ "flat" \notin StageFiles
                THEN [f \in StageFiles \cup {"flat"} |->
                         IF f = "flat" THEN FallbackStage ELSE files[f]]
                ELSE files
    /\ UNCHANGED <<scores_db, history, dirExists>>

\* variant: the fallback is chosen by the existence of the directory, not of
\* flat.json; opening a missing flat.json then fails
get_start_point_DirTest ==
    /\ resp' = IF ~dirExists
               THEN [op |-> "get_start_point", status |-> 200, body |-> FallbackStage]
               ELSE IF "flat" \notin StageFiles
               THEN [op |-> "get_start_point", status |-> 500]
               ELSE [op |-> "get_start_point", status |-> 200, body |-> files["flat"]]
    /\ UNCHANGED <<scores_db, history, dirExists, files>>

\* GET /stage/start
get_start_point ==
    /\ resp' = [op |-> "get_start_point", status |-> 200,
                body |-> IF "flat" \notin StageFiles THEN FallbackStage
                         ELSE files["flat"]]
    /\ UNCHANGED <<scores_db, history, dirExists, files>>

\* variant: a generated id that is already taken is refused
publish_stage_RefuseCollision(stage, n) ==
    LET stage_id  == IF ~Truthy(stage.id) THEN CustomId(n) ELSE stage.id
        stored    == [stage EXCEPT !.id = stage_id]
        file_path == FilePath(stage_id)
    IN /\ dirExists' = TRUE
       /\ IF ~Truthy(stage.id) /\ file_path.stem \in StageFiles
          THEN /\ files' = files
               /\ resp' = [op |-> "publish_stage", status |-> 409, req |-> stage]
          ELSE IF CanOpenForWrite(file_path)
          THEN /\ files' = [f \in StageFiles \cup {file_path.stem} |->
                               IF f = file_path.stem THEN stored ELSE files[f]]
               /\ resp' = [op |-> "publish_stage", status |-> 200,
                           req |-> stage, message |-> "Stage published",
                           id |-> stage_id,
                           replaced |-> IF file_path.stem \in StageFiles
                                        THEN << files[file_path.stem] >> ELSE <<>>]
          ELSE /\ files' = files
               /\ resp' = [op |-> "publish_stage", status |-> 500, req |-> stage]
       /\ UNCHANGED <<scores_db, history>>

\* variant: the directory is emptied before the file is written
publish_stage_ReplaceDir(stage, n) ==
    LET stage_id  == IF ~Truthy(stage.id) THEN CustomId(n) ELSE stage.id
        stored    == [stage EXCEPT !.id = stage_id]
        file_path == FilePath(stage_id)
    IN /\ dirExists' = TRUE
       /\ IF CanOpenForWrite(file_path)
          THEN /\ files' = [f \in {file_path.stem} |-> stored]
               /\ resp' = [op |-> "publish_stage", status |-> 200,
                           req |-> stage, message |-> "Stage published",
                           id |-> stage_id,
                           replaced |-> IF file_path.stem \in StageFiles
                                        THEN << files[file_path.stem] >> ELSE <<>>]
          ELSE /\ files' = files
               /\ resp' = [op |-> "publish_stage", status |-> 500, req |-> stage]
       /\ UNCHANGED <<scores_db, history>>

\* POST /stage; n is the value random.randint returns when it is called.
\* replaced records the content the written file had before, if it existed.
publish_stage(stage, n) ==
    LET stage_id  == IF ~Truthy(stage.id) THEN CustomId(n) ELSE stage.id
        stored    == [stage EXCEPT !.id = stage_id]
        file_path == FilePath(stage_id)
    IN /\ dirExists' = TRUE
       /\ IF CanOpenForWrite(file_path)
          THEN /\ files' = [f \in StageFiles \cup {file_path.stem} |->
                               IF f = file_path.stem THEN stored ELSE files[f]]
               /\ resp' = [op |-> "publish_stage", status |-> 200,
                           req |-> stage, message |-> "Stage published",
                           id |-> stage_id,
                           replaced |-> IF file_path.stem \in StageFiles
                                        THEN << files[file_path.stem] >> ELSE <<>>]
          ELSE /\ files' = files
               /\ resp' = [op |-> "publish_stage", status |-> 500, req |-> stage]
       /\ UNCHANGED <<scores_db, history>>

PublishStage ==
    /\ \E id \in StageIdInputs, w \in Widths, el \in ElementsInputs,
          n \in RandSample :
           publish_stage([id |-> id, width |-> w, elements |-> el], n)
    /\ UNCHANGED conc

GetStartPoint == get_start_point /\ UNCHANGED conc

---------------------------------------------------------------------------
Init ==
    /\ scores_db = <<>>
    /\ history = <<>>
    /\ dirExists \in BOOLEAN
    /\ files = NoFiles
    /\ resp = [op |-> "none", status |-> 0]
    /\ pending = [c \in Connections |-> Idle]
    /\ done = <<>>

NextScores == SubmitScore \/ GetScores

NextStages == PublishStage \/ GetRandomStage \/ GetStartPoint

\* the score board alone
SpecScores == Init /\ [][NextScores]_vars

\* the stage store alone
SpecStages == Init /\ [][NextStages]_vars

\* Score and stage requests in one run, with fewer inputs per request
FewStageIds == { EmptyStr, <<"a">>, <<".", "a">>, <<"flat">> }
FewExcludes == { None, <<"a">> }
FewCounts == {1, 2}

SubmitFew == Len(history) < MixedSubmits /\ SubmitScore

PublishFew ==
    /\ \E id \in FewStageIds, w \in Widths, el \in ElementsInputs :
           publish_stage([id |-> id, width |-> w, elements |-> el], RandLo)
    /\ UNCHANGED conc

GetRandomFew ==
    /\ \E exclude_id \in FewExcludes, count \in FewCounts :
           get_random_stage(exclude_id, count)
    /\ UNCHANGED conc

Next == SubmitFew \/ GetScores \/ PublishFew \/ GetRandomFew \/ GetStartPoint

\* all five handlers
Spec == Init /\ [][Next]_vars

---------------------------------------------------------------------------
(* Simultaneous requests.  The server accepts a request on a connection   *)
(* and calls its handler later; requests accepted on both connections are *)
(* in progress at the same time.  A handler is a coroutine without an      *)
(* await (lines 48, 111), so the event loop runs it from its first to its  *)
(* last statement before it runs anything else.                            *)

ConcStageIds == { EmptyStr, <<"a">> }

PostRequests ==
    [op : {"submit_score"}, arg : [score : ScoreValues, name : Names]]
    \cup [op : {"publish_stage"},
          arg : [id : ConcStageIds, width : Widths, elements : ElementsInputs]]

NumPending == Cardinality({ c \in Connections : pending[c].op # "idle" })

\* a request arrives; at is the number of requests completed before it
Accept(c) ==
    /\ pending[c].op = "idle"
    /\ Len(done) + NumPending < MaxRequests
    /\ \E r \in PostRequests :
           pending' = [pending EXCEPT ![c] = [op |-> r.op, arg |-> r.arg,
                                              at |-> Len(done)]]
    /\ UNCHANGED <<scores_db, history, dirExists, files, resp, done>>

\* variant: the handler works on the board as it was when the request
\* arrived (the entries of the requests completed since are missing) and
\* stores the result
RunSubmit_Stale(c) ==
    /\ pending[c].op = "submit_score"
    /\ Len(history) < MaxSubmits
    /\ LET entry == [score |-> pending[c].arg.score, name |-> pending[c].arg.name,
                     seq |-> Len(history) + 1]
           later == { done[k].out : k \in (pending[c].at + 1)..Len(done) }
           seen  == SelectSeq(scores_db, LAMBDA e : e \notin later)
       IN /\ scores_db' = KeepTop(SortDesc(Append(seen, entry)))
          /\ history' = Append(history, entry)
          /\ done' = Append(done, [op |-> "submit_score", at |-> pending[c].at,
                                   out |-> entry])
    /\ resp' = [op |-> "submit_score", status |-> 200, message |-> "Score submitted"]
    /\ pending' = [pending EXCEPT ![c] = Idle]
    /\ UNCHANGED <<dirExists, files>>

\* the event loop runs submit_score for the request of connection c
RunSubmit(c) ==
    /\ pending[c].op = "submit_score"
    /\ submit_score(pending[c].arg)
    /\ pending' = [pending EXCEPT ![c] = Idle]
    /\ done' = Append(done, [op |-> "submit_score", at |-> pending[c].at,
                             out |-> history'[Len(history')]])

\* the event loop runs publish_stage for the request of connection c
RunPublish(c) ==
    /\ pending[c].op = "publish_stage"
    /\ \E n \in RandSample : publish_stage(pending[c].arg, n)
    /\ pending' = [pending EXCEPT ![c] = Idle]
    /\ done' = Append(done, [op |-> "publish_stage", at |-> pending[c].at,
                             out |-> resp'])

NextConc == \E c \in Connections : Accept(c) \/ RunSubmit(c) \/ RunPublish(c)

\* simultaneous POST requests
SpecConc == Init /\ [][NextConc]_vars
---------------------------------------------------------------------------
(* Properties of GET /stage/random *)

\* the last response is a successful GET /stage/random
RandomOk == resp.op = "get_random_stage" /\ resp.status = 200

\* the last request was a GET /stage/random; the stores are those it read,
\* since every other request overwrites resp
RandomReq == resp.op = "get_random_stage"

\* the catalog: the identifiers (file stems) of the stage directory
Catalog == { <<f>> : f \in StageFiles }

\* C1: with at least 2 stages in the catalog and count >= 2, every adjacent
\* pair of returned stages has distinct identifiers, whatever exclude_id is.
C1_AdjacentDistinct ==
    (RandomOk /\ Cardinality(StageFiles) >= 2 /\ resp.count >= 2) =>
        \A i \in 2..Len(resp.body) : resp.body[i].id # resp.body[i - 1].id

\* C2: with at least 2 stages in the catalog and exclude_id one of them, the
\* first returned stage is not the excluded one (neither the file selected
\* nor the id it carries), for every count >= 1.
C2_FirstNotExcluded ==
    (RandomReq /\ Cardinality(StageFiles) >= 2 /\ resp.exclude_id \in Catalog
        /\ resp.count >= 1) =>
        /\ resp.status = 200
        /\ << resp.picked[1] >> # resp.exclude_id
        /\ resp.body[1].id # resp.exclude_id

C2_Witness ==
    /\ RandomOk /\ Cardinality(StageFiles) >= 2 /\ resp.exclude_id \in Catalog
    /\ resp.count >= 2

\* C3: on a non-empty catalog and with a positive count the request succeeds
\* and returns exactly count stages.
C3_LengthIsCount ==
    (RandomReq /\ dirExists /\ StageFiles # {} /\ resp.count >= 1) =>
        /\ resp.status = 200
        /\ Len(resp.body) = resp.count

C3_Witness ==
    RandomOk /\ resp.count = MaxCount /\ Len(resp.body) = MaxCount
        /\ Cardinality(StageFiles) >= 2

\* C4: on a catalog of exactly one stage the request succeeds for every
\* count >= 1 and every returned element is that stage, also when
\* exclude_id names that stage.
C4_SingleStageRepeats ==
    (RandomReq /\ Cardinality(StageFiles) = 1 /\ resp.count >= 1) =>
        /\ resp.status = 200
        /\ Len(resp.body) = resp.count
        /\ \A i \in 1..Len(resp.body) :
               /\ resp.picked[i] \in StageFiles
               /\ resp.body[i] = files[resp.picked[i]]

C4_Witness ==
    /\ RandomOk /\ Cardinality(StageFiles) = 1 /\ resp.count >= 2
    /\ resp.exclude_id \in Catalog
    /\ resp.body[1].id = resp.exclude_id

\* C5: a request with count <= 0 on a non-empty catalog fails with a
\* client-input (4xx) error and returns no stage sequence.
C5_InvalidCountRejected ==
    (RandomReq /\ dirExists /\ StageFiles # {} /\ resp.count <= 0) =>
        /\ resp.status >= 400 /\ resp.status <= 499
        /\ "body" \notin DOMAIN resp

\* C6: a GET /stage/random answers 500 when the directory is missing and 404
\* when it exists without a stage file, for every exclude_id and count, and
\* then returns no stage and changes nothing.
C6_MissingOrEmptyCatalog ==
    [][ (resp'.op = "get_random_stage" /\ resp' # resp) =>
          /\ ~dirExists =>
                /\ resp'.status = 500 /\ "body" \notin DOMAIN resp'
                /\ UNCHANGED <<scores_db, dirExists, files>>
          /\ (dirExists /\ StageFiles = {}) =>
                /\ resp'.status = 404 /\ "body" \notin DOMAIN resp'
                /\ UNCHANGED <<scores_db, dirExists, files>> ]_vars

C6_Witness ==
    /\ RandomReq /\ resp.status = 404 /\ dirExists /\ StageFiles = {}
    /\ Truthy(resp.exclude_id) /\ resp.count >= 1
---------------------------------------------------------------------------
(* Properties of the score board *)

\* C7: the board never holds more than 100 entries and is ordered by
\* non-increasing score.
C7_CappedAndSorted ==
    /\ Len(scores_db) <= BoardCap
    /\ \A i \in 1..(Len(scores_db) - 1) :
           scores_db[i].score >= scores_db[i + 1].score

C7_Witness ==
    /\ Len(history) > BoardCap /\ Len(scores_db) = BoardCap
    /\ scores_db[1].score > scores_db[BoardCap].score

\* C8: two retained entries of equal score stand in the order of their
\* submission, the earlier one first.
C8_TiesInSubmissionOrder ==
    \A i \in 1..Len(scores_db) : \A j \in (i + 1)..Len(scores_db) :
        scores_db[i].score = scores_db[j].score =>
            scores_db[i].seq < scores_db[j].seq

\* two entries tie although a higher score was submitted between them
C8_Witness ==
    \E i \in 1..Len(scores_db) : \E j \in (i + 1)..Len(scores_db) :
        /\ scores_db[i].score = scores_db[j].score
        /\ \E k \in 1..Len(scores_db) :
               /\ scores_db[k].score > scores_db[i].score
               /\ scores_db[i].seq < scores_db[k].seq
               /\ scores_db[k].seq < scores_db[j].seq

\* what GET /scores has to return after the submissions of history
IsTopOf(body, submitted) ==
    /\ Len(body) = Min(TopN, Len(submitted))
    /\ \A i \in 1..(Len(body) - 1) : body[i].score >= body[i + 1].score
    /\ \A i \in 1..Len(body) : \A j \in 1..Len(body) :
           i # j => body[i].seq # body[j].seq
    /\ \A i \in 1..Len(body) :
           /\ body[i].seq \in 1..Len(submitted)
           /\ submitted[body[i].seq] = body[i]
    /\ \A k \in 1..Len(submitted) :
           (\A i \in 1..Len(body) : body[i].seq # k) =>
               \A i \in 1..Len(body) : body[i].score >= submitted[k].score

\* C9: after n submissions GET /scores returns min(10, n) entries, the
\* highest-scoring submissions so far in descending order of score, and
\* leaves the board as it was.
C9_TopTen ==
    [][ (resp'.op = "get_scores" /\ resp' # resp) =>
          /\ scores_db' = scores_db
          /\ history' = history
          /\ IsTopOf(resp'.body, history) ]_vars

\* the scenario 10, 5, 20 -> 20, 10, 5
C9_Witness ==
    /\ resp.op = "get_scores"
    /\ Len(history) = 3
    /\ history[1].score = 10 /\ history[2].score = 5 /\ history[3].score = 20
    /\ Len(resp.body) = 3
    /\ resp.body[1].score = 20 /\ resp.body[2].score = 10 /\ resp.body[3].score = 5

---------------------------------------------------------------------------
(* Properties of POST /stage *)

\* C10: a POST /stage with a non-empty id X stores the definition under the
\* identifier X and returns X, so that X is in the catalog; with an empty id
\* it stores the definition under, and returns, an id custom_N with
\* 1000 <= N <= 9999, and the stored definition carries the returned id.
C10_PublishStoresUnderId ==
    resp.op = "publish_stage" =>
        /\ resp.status = 200
        /\ Truthy(resp.req.id) =>
              /\ resp.id = resp.req.id
              /\ resp.id \in Catalog
              /\ files[resp.id[1]] = resp.req
        /\ ~Truthy(resp.req.id) =>
              /\ \E n \in RandLo..RandHi : resp.id = CustomId(n)
              /\ resp.id \in Catalog
              /\ files[resp.id[1]] = [resp.req EXCEPT !.id = resp.id]
---------------------------------------------------------------------------
(* Properties of GET /stage/start *)

\* C11: GET /stage/start returns the hardcoded fallback stage exactly when no
\* file flat.json exists (also when the directory is missing) and the stored
\* definition of flat otherwise, which is the one a POST /stage with id flat
\* has just written.
C11_StartOrFallback ==
    [][ /\ resp'.op = "get_start_point" =>
              /\ resp'.status = 200
              /\ (resp'.body = FallbackStage) <=> ("flat" \notin StageFiles)
              /\ "flat" \in StageFiles => resp'.body = files["flat"]
        /\ (resp'.op = "publish_stage" /\ resp'.status = 200
               /\ resp'.req.id = <<"flat">>) =>
              /\ "flat" \in DOMAIN files'
              /\ files'["flat"] = resp'.req ]_vars

\* the stored flat is served, with a width the fallback does not have
C11_Witness ==
    /\ resp.op = "get_start_point" /\ "flat" \in StageFiles
    /\ resp.body = files["flat"] /\ resp.body.id = <<"flat">>
    /\ resp.body.width # FallbackWidth

---------------------------------------------------------------------------
(* Properties of the candidate set *)

\* the candidates the selection has when cur is forbidden: the catalog
\* without cur when cur is in the catalog and other stages exist
Candidates(cur) ==
    IF cur \in Catalog /\ Cardinality(Catalog) > 1
    THEN { f \in StageFiles : <<f>> # cur }
    ELSE StageFiles

\* the identifier forbidden at position i of the last response: exclude_id
\* at the first position, the id of the previously returned stage after it
Forbidden(i) == IF i = 1 THEN resp.exclude_id ELSE resp.body[i - 1].id

\* the files a request with exclude_id e can return first
FirstPicks(e) ==
    { run.picks[1] : run \in { r \in Generate(StageFiles, e, 1) : r.ok } }

---------------------------------------------------------------------------
(* Properties of the stored stages *)

\* C16: every stored stage carries, in its id field, the identifier (file
\* stem) it is stored under.
C16_IdEqualsStem ==
    \A f \in StageFiles : files[f].id = <<f>>

---------------------------------------------------------------------------
(* Properties of the eviction *)

\* entry x ranks before entry y: higher score, or equal score and submitted
\* earlier
RanksBefore(x, y) ==
    x.score > y.score \/ (x.score = y.score /\ x.seq < y.seq)

\* board holds the Min(n, cap) best of the n submissions, in rank order
IsBestOf(board, submitted) ==
    LET kept == { board[i].seq : i \in 1..Len(board) }
    IN /\ Len(board) = Min(Len(submitted), BoardCap)
       /\ Cardinality(kept) = Len(board)
       /\ \A i \in 1..Len(board) :
              /\ board[i].seq \in 1..Len(submitted)
              /\ submitted[board[i].seq] = board[i]
       /\ \A i \in 1..(Len(board) - 1) : RanksBefore(board[i], board[i + 1])
       /\ \A k \in (1..Len(submitted)) \ kept :
              \A i \in 1..Len(board) : RanksBefore(board[i], submitted[k])

\* C18: a submission to a board of 100 entries evicts exactly one entry, the
\* last in sorted order (lowest score, most recent among the lowest); a new
\* score not above the minimum is itself dropped and the board stays as it
\* was; the board always is the min(n, 100) best submissions, earlier ones
\* preferred on ties.
C18_EvictsLast ==
    [][ history' # history =>
          LET new  == history'[Len(history')]
              last == scores_db[BoardCap]
          IN /\ Len(scores_db) = BoardCap =>
                   /\ Len(scores_db') = BoardCap
                   /\ \A i \in 1..BoardCap : RanksBefore(scores_db[i], last) \/ i = BoardCap
                   /\ new.score <= last.score => scores_db' = scores_db
                   /\ new.score > last.score =>
                         { scores_db'[i] : i \in 1..BoardCap } =
                            ({ scores_db[i] : i \in 1..BoardCap } \ {last}) \cup {new}
             /\ IsBestOf(scores_db', history') ]_vars

\* a full board whose lowest score is shared by several entries has lost the
\* most recent of them to a higher new score
C18_Witness ==
    /\ Len(history) > BoardCap /\ Len(scores_db) = BoardCap
    /\ history[Len(history)].score > scores_db[BoardCap].score
    /\ \E k \in 1..(Len(history) - 1) :
          /\ history[k].score = scores_db[BoardCap].score
          /\ history[k].seq > scores_db[BoardCap].seq
          /\ \A i \in 1..BoardCap : scores_db[i].seq # k
    /\ scores_db[BoardCap - 1].score = scores_db[BoardCap].score
---------------------------------------------------------------------------
(* Frame properties *)

\* C15: GET /stage/random, GET /stage/start and GET /scores change neither
\* the score board nor the stage directory; POST /scores leaves the stage
\* directory as it is; POST /stage leaves the score board and every stage
\* file other than the one it writes as they are.
C15_Frame ==
    [][ /\ resp'.op \in {"get_random_stage", "get_start_point", "get_scores"} =>
              /\ scores_db' = scores_db
              /\ files' = files /\ dirExists' = dirExists
        /\ resp'.op = "submit_score" =>
              files' = files /\ dirExists' = dirExists
        /\ resp'.op = "publish_stage" =>
              /\ scores_db' = scores_db
              /\ \A f \in StageFiles :
                     (resp'.status # 200 \/ f # FilePath(resp'.id).stem) =>
                         /\ f \in DOMAIN files'
                         /\ files'[f] = files[f] ]_vars

\* a publish onto a non-empty board and next to another stage file
C15_Witness ==
    /\ resp.op = "publish_stage" /\ resp.status = 200
    /\ Len(scores_db) >= 2
    /\ Cardinality(StageFiles) >= 2
    /\ resp.replaced # <<>>
---------------------------------------------------------------------------
(* Properties of simultaneous requests *)

\* the i-th and the j-th completed request (i < j) were in progress at the
\* same time: the later one had arrived before the earlier one completed
Overlap(i, j) == i < j /\ done[j].at < i

\* two POST requests of the same kind were in progress at the same time and
\* every accepted request has completed
SimultaneousPairDone ==
    /\ \A c \in Connections : pending[c].op = "idle"
    /\ \E i \in 1..Len(done) : \E j \in 1..Len(done) :
           Overlap(i, j) /\ done[i].op = done[j].op

\* the score of the i-th completed request ranks within the cap and is not
\* on the board
LostScore(i) ==
    /\ done[i].op = "submit_score"
    /\ Len(history) <= BoardCap
    /\ \A k \in 1..Len(scores_db) : scores_db[k] # done[i].out

\* the i-th completed request stored a stage, no later request wrote its
\* file, and the file does not hold its definition
LostStage(i) ==
    /\ done[i].op = "publish_stage"
    /\ done[i].out.status = 200
    /\ LET f == FilePath(done[i].out.id).stem
       IN /\ \A j \in (i + 1)..Len(done) :
                 ~ ( /\ done[j].op = "publish_stage"
                     /\ done[j].out.status = 200
                     /\ FilePath(done[j].out.id).stem = f )
          /\ \/ f \notin StageFiles
             \/ files[f] # [done[i].out.req EXCEPT !.id = done[i].out.id]

LostUpdate == \E i \in 1..Len(done) : LostScore(i) \/ LostStage(i)

====
